---- MODULE Spec2Model ----
(***************************************************************************)
(* A model of the closure-carrying utilities of src/src/functions-tasks.js *)
(* (getPolynom, memoize, retry, logger, getIdGeneratorFunction).           *)
(*                                                                         *)
(* Each utility has its own specification (SpecMemo, SpecRetry, ...): the  *)
(* functions of the file share no state.  Callbacks handed to a utility    *)
(* (func, logFunc) are the environment: every call of one either returns a *)
(* value or throws an error, chosen non-deterministically.                 *)
(*                                                                         *)
(* Variables named h_... are history variables: they record what the       *)
(* callbacks and the callers observed and are never read by the modelled   *)
(* code.                                                                   *)
(***************************************************************************)
EXTENDS Integers, Sequences, FiniteSets, TLC

VARIABLES
    memos,        \* memoize: the memo cell of every wrapper created so far
    h_memoFunc,   \* per wrapper, the calls of func: <<invocation, outcome>>
    h_memoOut,    \* per wrapper, the outcome of every invocation of it
    h_memoWrites, \* per wrapper, the invocations that assigned the memo cell
    attempts,     \* retry: the `attempts` captured by the wrapper
    rpc,          \* retry: "idle", or "loop" while an invocation is running
    ri,           \* retry: the loop variable i
    lastError,    \* retry: the local lastError
    h_retryCur,   \* the outcomes of func's calls in the running invocation
    h_retryDone,  \* <<>>, or the invocation just finished: calls, completion
    h_retryPast,  \* how every finished invocation ended: "return" or "throw"
    funcName,     \* logger: func.name of the wrapped function
    lpc,          \* logger: "idle", or the statement the wrapper is at
    largs,        \* logger: the args of the running invocation
    argsString,   \* logger: the local argsString
    lresult,      \* logger: the completion of func(...args)
    lcalls,       \* logger: the number of invocations started
    h_logEvents,  \* the calls of logFunc and func made by the invocation
    h_logDone,    \* <<>>, or the record of the invocation that just finished
    idValue,      \* getIdGeneratorFunction: the `value` of every generator
    h_idStart,    \* per generator, the startFrom it was constructed with
    h_idTrace,    \* the calls of all generators, in order: generator, result
    coefficients, \* getPolynom: the rest parameter
    polynom,      \* what getPolynom returned: "none" yet, "null", "function"
    h_polCall     \* <<>>, or the last call of pol: its argument and result

memoVars == <<memos, h_memoFunc, h_memoOut, h_memoWrites>>

retryVars == <<attempts, rpc, ri, lastError, h_retryCur, h_retryDone,
               h_retryPast>>

loggerVars == <<funcName, lpc, largs, argsString, lresult, lcalls,
                h_logEvents, h_logDone>>

idVars == <<idValue, h_idStart, h_idTrace>>

polyVars == <<coefficients, polynom, h_polCall>>

vars == <<memoVars, retryVars, loggerVars, idVars, polyVars>>

----------------------------------------------------------------------------
(* JavaScript values, as far as the utilities look at them.                *)

\* the value of a declared, not yet assigned `let` and of a missing result
Undefined == "undefined"

\* values a callback may return
Values == {Undefined, "v1"}

\* values a callback may throw
Errors == {"e1", "e2"}

\* the completion of a call: a normal return or a throw
Ret(v) == [kind |-> "return", val |-> v]
Throw(e) == [kind |-> "throw", val |-> e]

\* every way one call of a callback may complete
Outcomes == {Ret(v) : v \in Values} \cup {Throw(e) : e \in Errors}

----------------------------------------------------------------------------
(* The state of a utility in the specifications of the other utilities.    *)

MemoUnused ==
    /\ memos = <<>>
    /\ h_memoFunc = <<>>
    /\ h_memoOut = <<>>
    /\ h_memoWrites = <<>>

RetryUnused ==
    /\ attempts = 0
    /\ rpc = "idle"
    /\ ri = 0
    /\ lastError = Undefined
    /\ h_retryCur = <<>>
    /\ h_retryDone = <<>>
    /\ h_retryPast = <<>>

LoggerUnused ==
    /\ funcName = ""
    /\ lpc = "idle"
    /\ largs = <<>>
    /\ argsString = ""
    /\ lresult = Ret(Undefined)
    /\ lcalls = 0
    /\ h_logEvents = <<>>
    /\ h_logDone = <<>>

IdUnused ==
    /\ idValue = <<>>
    /\ h_idStart = <<>>
    /\ h_idTrace = <<>>

PolyUnused ==
    /\ coefficients = <<>>
    /\ polynom = "none"
    /\ h_polCall = <<>>

----------------------------------------------------------------------------
(* memoize                                                                 *)

\* the number of wrappers created by memoize
MaxMemo == 2
\* the number of invocations of one memoized wrapper
MaxMemoCalls == 3

MemoIds == 1..Len(memos)

\* `let cachedResult; let isCached = false;`
NewMemoCell == [cachedResult |-> Undefined, isCached |-> FALSE]

\* memoize(func): a fresh memo cell, captured by the returned wrapper
Memoize ==
    /\ Len(memos) < MaxMemo
    /\ memos' = Append(memos, NewMemoCell)
    /\ h_memoFunc' = Append(h_memoFunc, <<>>)
    /\ h_memoOut' = Append(h_memoOut, <<>>)
    /\ h_memoWrites' = Append(h_memoWrites, <<>>)

\* a wrapper that does not test the flag: func is called on every invocation
MemoMustCall_NoTest(cell) == TRUE

\* `if (!isCached)`: whether this invocation calls func
MemoMustCall(cell) == ~cell.isCached

\* a wrapper that raises the flag before func has returned
MemoCellAfter_FlagFirst(cell, o) ==
    [cachedResult |-> IF o.kind = "return" THEN o.val ELSE cell.cachedResult,
     isCached |-> TRUE]

\* a wrapper that stores the value and forgets `isCached = true`
MemoCellAfter_NoFlag(cell, o) ==
    IF o.kind = "return"
    THEN [cachedResult |-> o.val, isCached |-> cell.isCached]
    ELSE cell

\* the cell after `cachedResult = func(); isCached = true;` when func
\* completes with outcome o: a throw leaves both assignments undone
MemoCellAfter(cell, o) ==
    IF o.kind = "return"
    THEN [cachedResult |-> o.val, isCached |-> TRUE]
    ELSE cell

\* the completion of the wrapper: func's exception, or `return cachedResult`
MemoResult(cell, called, o) ==
    IF called /\ o.kind = "throw"
    THEN o
    ELSE Ret(IF called THEN MemoCellAfter(cell, o).cachedResult
                       ELSE cell.cachedResult)

\* one invocation of wrapper w; o is how func completes if it is called
MemoInvoke(w, o) ==
    LET cell == memos[w]
        n == Len(h_memoOut[w]) + 1
        called == MemoMustCall(cell)
    IN /\ n <= MaxMemoCalls
       /\ memos' = [memos EXCEPT ![w] = IF called THEN MemoCellAfter(cell, o)
                                                  ELSE cell]
       /\ h_memoFunc' = [h_memoFunc EXCEPT ![w] =
              IF called THEN Append(@, [inv |-> n, out |-> o]) ELSE @]
       /\ h_memoWrites' = [h_memoWrites EXCEPT ![w] =
              IF called /\ o.kind = "return" THEN Append(@, n) ELSE @]
       /\ h_memoOut' = [h_memoOut EXCEPT ![w] =
              Append(@, MemoResult(cell, called, o))]

InitMemo ==
    /\ RetryUnused
    /\ LoggerUnused
    /\ IdUnused
    /\ PolyUnused
    /\ memos = <<>>
    /\ h_memoFunc = <<>>
    /\ h_memoOut = <<>>
    /\ h_memoWrites = <<>>

NextMemo ==
    \/ UNCHANGED <<retryVars, loggerVars, idVars, polyVars>> /\ Memoize
    \/ UNCHANGED <<retryVars, loggerVars, idVars, polyVars>> /\ \E w \in MemoIds, o \in Outcomes : MemoInvoke(w, o)

SpecMemo == InitMemo /\ [][NextMemo]_vars

\* the calls of func made during invocation j of wrapper w
MemoCallsIn(w, j) ==
    {i \in 1..Len(h_memoFunc[w]) : h_memoFunc[w][i].inv = j}

\* func returned normally during invocation j of wrapper w
MemoReturnedIn(w, j) ==
    \E i \in MemoCallsIn(w, j) : h_memoFunc[w][i].out.kind = "return"

\* no call of wrapper w's func has thrown so far
MemoNeverThrew(w) ==
    \A i \in 1..Len(h_memoFunc[w]) : h_memoFunc[w][i].out.kind = "return"

(* C1: when func does not throw, any one or more invocations of a memoized *)
(* wrapper call func exactly once, during the first invocation, and every  *)
(* invocation (the first included) returns the value of that single call,  *)
(* whatever it is (undefined included) and although a second call of func  *)
(* could have returned something else.                                     *)
C1_MemoCallsOnce ==
    \A w \in MemoIds :
        (MemoNeverThrew(w) /\ Len(h_memoOut[w]) >= 1) =>
            /\ Len(h_memoFunc[w]) = 1
            /\ h_memoFunc[w][1].inv = 1
            /\ \A j \in 1..Len(h_memoOut[w]) :
                   h_memoOut[w][j] = Ret(h_memoFunc[w][1].out.val)

\* a wrapper invoked three times whose only call of func returned undefined,
\* next to a wrapper whose func returned something else
C1_Witness ==
    \E w, u \in MemoIds :
        /\ Len(h_memoOut[w]) = 3
        /\ h_memoFunc[w] = <<[inv |-> 1, out |-> Ret(Undefined)]>>
        /\ h_memoOut[w][3] = Ret(Undefined)
        /\ Len(h_memoOut[u]) >= 2
        /\ h_memoFunc[u] = <<[inv |-> 1, out |-> Ret("v1")]>>

(* C2: when func throws during an invocation made while nothing is cached, *)
(* the same exception reaches the caller, the memo cell stays unset        *)
(* (isCached false, nothing stored), and the next invocation calls func    *)
(* again; once a call of func succeeds its value is cached and returned    *)
(* from then on.                                                           *)
C2_MemoThrowLeavesUncached ==
    \A w \in MemoIds :
        /\ \A j \in 1..Len(h_memoOut[w]) :
              \* nothing cached before invocation j: func is called, once
              /\ (\A k \in 1..(j - 1) : ~MemoReturnedIn(w, k)) =>
                     Cardinality(MemoCallsIn(w, j)) = 1
              /\ \A i \in MemoCallsIn(w, j) :
                     LET o == h_memoFunc[w][i].out
                     IN IF o.kind = "throw"
                        THEN h_memoOut[w][j] = o
                        ELSE /\ memos[w] = [cachedResult |-> o.val,
                                            isCached |-> TRUE]
                             /\ \A k \in j..Len(h_memoOut[w]) :
                                    h_memoOut[w][k] = Ret(o.val)
        /\ (\A j \in 1..Len(h_memoOut[w]) : ~MemoReturnedIn(w, j)) =>
               memos[w] = NewMemoCell

\* func threw e1, then e2, then returned v1, which is now cached
C2_Witness ==
    \E w \in MemoIds :
        /\ h_memoOut[w] = <<Throw("e1"), Throw("e2"), Ret("v1")>>
        /\ Len(h_memoFunc[w]) = 3
        /\ memos[w] = [cachedResult |-> "v1", isCached |-> TRUE]

(* C10 as stated: the memo cell of a wrapper is mutated exactly once, on   *)
(* the first invocation of the wrapper, and never again.                   *)
C10_WrittenOnFirstInvocation ==
    \A w \in MemoIds :
        Len(h_memoOut[w]) >= 1 => h_memoWrites[w] = <<1>>

\* the invocations of wrapper w during which func returned normally
MemoSuccesses(w) ==
    {j \in 1..Len(h_memoOut[w]) : MemoReturnedIn(w, j)}

\* C10, the state part: at most one write, made by the first invocation in
\* which func returns normally; an unwritten cell is as memoize created it
C10_WritesInv ==
    \A w \in MemoIds :
        /\ Len(h_memoWrites[w]) <= 1
        /\ \A j \in 1..Len(h_memoOut[w]) :
              (h_memoWrites[w] = <<j>>) <=>
                  (j \in MemoSuccesses(w) /\
                   \A k \in MemoSuccesses(w) : j <= k)
        /\ (h_memoWrites[w] = <<>>) => memos[w] = NewMemoCell
        /\ (MemoNeverThrew(w) /\ Len(h_memoOut[w]) >= 1) =>
               h_memoWrites[w] = <<1>>

\* C10, the step part: memoize adds a fresh cell and touches no other; a
\* cell changes only in an invocation of its own wrapper, only from the
\* fresh state, and the history of writes records exactly these changes
C10_WritesStep ==
    /\ Len(memos') >= Len(memos)
    /\ \A w \in 1..Len(memos') :
          IF w > Len(memos)
          THEN /\ memos'[w] = NewMemoCell
               /\ \A u \in MemoIds : memos'[u] = memos[u]
          ELSE IF memos'[w] # memos[w]
               THEN /\ memos[w] = NewMemoCell
                    /\ Len(h_memoOut'[w]) = Len(h_memoOut[w]) + 1
                    /\ h_memoWrites'[w] =
                           Append(h_memoWrites[w], Len(h_memoOut'[w]))
                    /\ \A u \in MemoIds \ {w} : memos'[u] = memos[u]
               ELSE h_memoWrites'[w] = h_memoWrites[w]

(* C10, amended: the memo cell of a wrapper is created fresh per call to   *)
(* memoize, is changed only by invocations of that wrapper, and is mutated *)
(* at most once: by the first invocation in which func returns normally    *)
(* (the first invocation when func does not throw), and never again; while *)
(* every call of func has thrown the cell is still as memoize created it.  *)
C10_MemoCellWrittenAtMostOnce ==
    []C10_WritesInv /\ [][C10_WritesStep]_vars

\* two wrappers: the cell of one was written by its second invocation, after
\* a throw, and then read twice; the cell of the other is still fresh
C10_Witness ==
    \E w, u \in MemoIds :
        /\ h_memoOut[w] = <<Throw("e1"), Ret("v1"), Ret("v1")>>
        /\ h_memoWrites[w] = <<2>>
        /\ h_memoOut[u] = <<Throw("e2")>>
        /\ memos[u] = NewMemoCell

----------------------------------------------------------------------------
(* retry                                                                   *)

\* the largest `attempts` handed to retry
MaxAttempts == 3
\* the number of invocations of the wrapper retry returns
MaxRetryCalls == 2

\* the values of `attempts` tried: negative, zero and positive
AttemptsDomain == (0 - 1)..MaxAttempts

\* a loop that keeps the i of the previous invocation
RetryFirstIndex_Stale == ri

\* `let i = 0`: every invocation of the wrapper starts its own loop
RetryFirstIndex == 0

\* a loop that tests after the body, so that the body runs at least once
RetryLoopContinues_TestAfter(i, n) == i = 0 \/ i < n

\* `i < attempts`
RetryLoopContinues(i, n) == i < n

\* a handler that keeps the first error it caught
RetryCaught_KeepFirst(held, e, i) == IF i = 0 THEN e ELSE held

\* `catch (error) { lastError = error; }`: the value lastError holds after
\* call i + 1 of func threw e
RetryCaught(held, e, i) == e

\* the wrapper is invoked: `let lastError;` and the loop's `let i = 0`
RetryInvoke ==
    /\ rpc = "idle"
    /\ Len(h_retryPast) < MaxRetryCalls
    /\ rpc' = "loop"
    /\ lastError' = Undefined
    /\ ri' = RetryFirstIndex
    /\ h_retryCur' = <<>>
    /\ h_retryDone' = <<>>
    /\ UNCHANGED <<attempts, h_retryPast>>

\* `return func();` with func returning v: the wrapper returns v at once
RetryAttemptReturns(v) ==
    /\ rpc = "loop"
    /\ RetryLoopContinues(ri, attempts)
    /\ rpc' = "idle"
    /\ h_retryDone' = <<[calls |-> Append(h_retryCur, Ret(v)), out |-> Ret(v)]>>
    /\ h_retryPast' = Append(h_retryPast, "return")
    /\ h_retryCur' = <<>>
    /\ UNCHANGED <<attempts, ri, lastError>>

\* func throws e: the catch block stores it and the loop does `i += 1`
RetryAttemptThrows(e) ==
    /\ rpc = "loop"
    /\ RetryLoopContinues(ri, attempts)
    /\ lastError' = RetryCaught(lastError, e, ri)
    /\ ri' = ri + 1
    /\ h_retryCur' = Append(h_retryCur, Throw(e))
    /\ UNCHANGED <<attempts, rpc, h_retryDone, h_retryPast>>

\* the loop condition fails: `throw lastError;`
RetryExhausted ==
    /\ rpc = "loop"
    /\ ~RetryLoopContinues(ri, attempts)
    /\ rpc' = "idle"
    /\ h_retryDone' = <<[calls |-> h_retryCur, out |-> Throw(lastError)]>>
    /\ h_retryPast' = Append(h_retryPast, "throw")
    /\ h_retryCur' = <<>>
    /\ UNCHANGED <<attempts, ri, lastError>>

\* retry(func, attempts) has returned its wrapper
InitRetry ==
    /\ MemoUnused
    /\ LoggerUnused
    /\ IdUnused
    /\ PolyUnused
    /\ attempts \in AttemptsDomain
    /\ rpc = "idle"
    /\ ri = 0
    /\ lastError = Undefined
    /\ h_retryCur = <<>>
    /\ h_retryDone = <<>>
    /\ h_retryPast = <<>>

NextRetry ==
    \/ UNCHANGED <<memoVars, loggerVars, idVars, polyVars>> /\ RetryInvoke
    \/ UNCHANGED <<memoVars, loggerVars, idVars, polyVars>> /\ \E v \in Values : RetryAttemptReturns(v)
    \/ UNCHANGED <<memoVars, loggerVars, idVars, polyVars>> /\ \E e \in Errors : RetryAttemptThrows(e)
    \/ UNCHANGED <<memoVars, loggerVars, idVars, polyVars>> /\ RetryExhausted

SpecRetry == InitRetry /\ [][NextRetry]_vars

\* every call in the sequence of outcomes cs threw
AllThrew(cs) == \A i \in 1..Len(cs) : cs[i].kind = "throw"

(* C3: with attempts >= 1, every invocation of the retry wrapper calls     *)
(* func one call at a time; when call k (1 <= k <= attempts) is the first  *)
(* that does not throw, the wrapper returns the result of call k, func was *)
(* called exactly k times in this invocation and is not called after the   *)
(* success, and no error reaches the caller.  Every invocation has the     *)
(* whole budget of `attempts` calls, whatever earlier invocations used.    *)
C3_RetryReturnsFirstSuccess ==
    attempts >= 1 =>
        \* the running invocation: only failed calls so far, within budget,
        \* and it cannot give up before the budget is spent
        /\ rpc = "loop" =>
              /\ AllThrew(h_retryCur)
              /\ Len(h_retryCur) = ri
              /\ ri <= attempts
              /\ (ri < attempts) => ~ENABLED RetryExhausted
              /\ (ri < attempts) => ENABLED RetryAttemptReturns("v1")
        \* between invocations func is not called
        /\ rpc = "idle" =>
              /\ h_retryCur = <<>>
              /\ \A v \in Values : ~ENABLED RetryAttemptReturns(v)
              /\ \A e \in Errors : ~ENABLED RetryAttemptThrows(e)
        \* the invocation that finished
        /\ \A n \in 1..Len(h_retryDone) :
              LET cs == h_retryDone[n].calls
                  k == Len(cs)
              IN /\ k \in 1..attempts
                 /\ AllThrew(SubSeq(cs, 1, k - 1))
                 /\ cs[k].kind = "return" => h_retryDone[n].out = cs[k]
                 /\ h_retryDone[n].out.kind = "throw" => k = attempts

\* attempts = 3: an invocation in which every call threw, followed by one
\* that succeeded with its third call
C3_Witness ==
    /\ attempts = 3
    /\ h_retryPast = <<"throw", "return">>
    /\ h_retryDone = <<[calls |-> <<Throw("e1"), Throw("e2"), Ret("v1")>>,
                        out |-> Ret("v1")]>>

(* C4: with attempts >= 1, when every one of the `attempts` calls of func  *)
(* throws, func is called exactly `attempts` times and the wrapper throws  *)
(* the error of the last call; the earlier errors never reach the caller.  *)
C4_RetryThrowsLastError ==
    attempts >= 1 =>
        \A n \in 1..Len(h_retryDone) :
            LET cs == h_retryDone[n].calls
            IN AllThrew(cs) =>
                  /\ Len(cs) = attempts
                  /\ h_retryDone[n].out = cs[attempts]

\* attempts = 3: in the second invocation the calls threw e2, e2 and e1, in
\* this order, and the wrapper threw e1
C4_Witness ==
    /\ attempts = 3
    /\ h_retryPast = <<"return", "throw">>
    /\ h_retryDone = <<[calls |-> <<Throw("e2"), Throw("e2"), Throw("e1")>>,
                        out |-> Throw("e1")]>>

(* C9: with attempts zero or negative, invoking the retry wrapper never    *)
(* calls func (the loop body does not run) and the wrapper throws the      *)
(* never assigned lastError, undefined, instead of returning.              *)
C9_RetryNoAttempts ==
    attempts <= 0 =>
        /\ h_retryCur = <<>>
        /\ \A v \in Values : ~ENABLED RetryAttemptReturns(v)
        /\ \A e \in Errors : ~ENABLED RetryAttemptThrows(e)
        /\ rpc = "loop" => ENABLED RetryExhausted
        /\ \A n \in 1..Len(h_retryDone) :
              /\ h_retryDone[n].calls = <<>>
              /\ h_retryDone[n].out = Throw(Undefined)

\* a wrapper built with a negative `attempts` has been invoked twice
C9_Witness ==
    /\ attempts < 0
    /\ h_retryPast = <<"throw", "throw">>
    /\ h_retryDone = <<[calls |-> <<>>, out |-> Throw(Undefined)]>>

----------------------------------------------------------------------------
(* logger                                                                  *)

\* the largest number of arguments handed to the logging wrapper
MaxArgs == 2
\* the number of invocations of the logging wrapper
MaxLoggerCalls == 2

\* arguments: a number, a string, undefined, and a BigInt, which
\* JSON.stringify refuses (as it refuses a cyclic object)
NumArg(n) == [type |-> "number", num |-> n, str |-> ""]
StrArg(t) == [type |-> "string", num |-> 0, str |-> t]
UndefArg == [type |-> "undefined", num |-> 0, str |-> ""]
BigIntArg(n) == [type |-> "bigint", num |-> n, str |-> ""]

ArgValues == {NumArg(0 - 20), StrArg("a"), UndefArg, BigIntArg(1)}

RECURSIVE SeqsUpTo(_, _)
\* the sequences over S of length at most n
SeqsUpTo(S, n) ==
    IF n = 0 THEN {<<>>}
    ELSE LET shorter == SeqsUpTo(S, n - 1)
         IN shorter \cup {Append(q, x) : q \in {r \in shorter : Len(r) = n - 1},
                                         x \in S}

ArgLists == SeqsUpTo(ArgValues, MaxArgs)

\* func.name: a named function, or an anonymous one
FuncNames == {"cos", ""}

\* values the wrapped function may return, and values it or logFunc may throw
LoggerValues == {Undefined, "v1"}
LoggerErrors == {"e1"}
LoggerFuncOutcomes ==
    {Ret(v) : v \in LoggerValues} \cup {Throw(e) : e \in LoggerErrors}
\* logFunc's return value is never looked at
LogFuncOutcomes == {Ret(Undefined)} \cup {Throw(e) : e \in LoggerErrors}

\* JSON.stringify(arg): the text, undefined for undefined, or a TypeError
JsonStringify(arg) ==
    CASE arg.type = "number" -> Ret(ToString(arg.num))
      [] arg.type = "string" -> Ret("\"" \o arg.str \o "\"")
      [] arg.type = "undefined" -> Ret(Undefined)
      [] arg.type = "bigint" -> Throw("TypeError")

RECURSIVE JoinComma(_)
\* Array.prototype.join(','): an undefined element contributes the empty string
JoinComma(texts) ==
    IF texts = <<>> THEN ""
    ELSE LET one(t) == IF t = Undefined THEN "" ELSE t
         IN IF Len(texts) = 1
            THEN one(texts[1])
            ELSE one(texts[1]) \o "," \o JoinComma(Tail(texts))

\* `args.map((arg) => JSON.stringify(arg)).join(',')`: the first TypeError of
\* the map, or the joined text
ArgsToString(args) ==
    LET bad == {i \in 1..Len(args) : JsonStringify(args[i]).kind = "throw"}
    IN IF bad # {}
       THEN JsonStringify(args[CHOOSE i \in bad : \A j \in bad : i <= j])
       ELSE Ret(JoinComma([i \in 1..Len(args) |-> JsonStringify(args[i]).val]))

\* the template literal `${funcName}(${argsString}) starts` (or ends)
LogLine(name, text, phase) == name \o "(" \o text \o ") " \o phase

\* a wrapper that forgets the first logFunc call
LoggerFirstStatement_NoStarts == "call"

\* the statement that follows the computation of argsString
LoggerFirstStatement == "starts"

\* a wrapper that logs "ends" in a finally block
LoggerReachesEnds_Finally(o) == TRUE

\* whether `logFunc(... ends)` is reached after func completed with o
LoggerReachesEnds(o) == o.kind = "return"

\* the invocation is over: its record, for the caller to look at
LoggerFinish(events, out) ==
    /\ lpc' = "idle"
    /\ h_logDone' = <<[args |-> largs, events |-> events, out |-> out]>>
    /\ h_logEvents' = <<>>

\* wrapper(...args) is invoked: funcName and argsString are computed
LoggerInvoke(args) ==
    /\ lpc = "idle"
    /\ lcalls < MaxLoggerCalls
    /\ lcalls' = lcalls + 1
    /\ largs' = args
    /\ LET text == ArgsToString(args)
       IN IF text.kind = "throw"
          THEN /\ lpc' = "idle"
               /\ h_logDone' = <<[args |-> args, events |-> <<>>, out |-> text]>>
               /\ UNCHANGED argsString
          ELSE /\ lpc' = LoggerFirstStatement
               /\ h_logDone' = <<>>
               /\ argsString' = text.val
    /\ h_logEvents' = <<>>
    /\ UNCHANGED <<funcName, lresult>>

\* `logFunc(... starts)`; o is how logFunc completes
LoggerLogStarts(o) ==
    /\ lpc = "starts"
    /\ LET events == Append(h_logEvents,
               [callee |-> "logFunc",
                arg |-> LogLine(funcName, argsString, "starts"), out |-> o])
       IN IF o.kind = "throw"
          THEN LoggerFinish(events, o)
          ELSE /\ lpc' = "call"
               /\ h_logEvents' = events
               /\ UNCHANGED h_logDone
    /\ UNCHANGED <<funcName, largs, argsString, lresult, lcalls>>

\* `const result = func(...args)`; o is how func completes
LoggerCallFunc(o) ==
    /\ lpc = "call"
    /\ LET events == Append(h_logEvents,
               [callee |-> "func", arg |-> largs, out |-> o])
       IN IF LoggerReachesEnds(o)
          THEN /\ lpc' = "ends"
               /\ lresult' = o
               /\ h_logEvents' = events
               /\ UNCHANGED h_logDone
          ELSE /\ LoggerFinish(events, o)
               /\ UNCHANGED lresult
    /\ UNCHANGED <<funcName, largs, argsString, lcalls>>

\* `logFunc(... ends); return result;`; o is how logFunc completes
LoggerLogEnds(o) ==
    /\ lpc = "ends"
    /\ LET events == Append(h_logEvents,
               [callee |-> "logFunc",
                arg |-> LogLine(funcName, argsString, "ends"), out |-> o])
       IN LoggerFinish(events, IF o.kind = "throw" THEN o ELSE lresult)
    /\ UNCHANGED <<funcName, largs, argsString, lresult, lcalls>>

\* logger(func, logFunc) has returned its wrapper
InitLogger ==
    /\ MemoUnused
    /\ RetryUnused
    /\ IdUnused
    /\ PolyUnused
    /\ funcName \in FuncNames
    /\ lpc = "idle"
    /\ largs = <<>>
    /\ argsString = ""
    /\ lresult = Ret(Undefined)
    /\ lcalls = 0
    /\ h_logEvents = <<>>
    /\ h_logDone = <<>>

NextLogger ==
    \/ UNCHANGED <<memoVars, retryVars, idVars, polyVars>> /\ \E args \in ArgLists : LoggerInvoke(args)
    \/ UNCHANGED <<memoVars, retryVars, idVars, polyVars>> /\ \E o \in LogFuncOutcomes : LoggerLogStarts(o)
    \/ UNCHANGED <<memoVars, retryVars, idVars, polyVars>> /\ \E o \in LoggerFuncOutcomes : LoggerCallFunc(o)
    \/ UNCHANGED <<memoVars, retryVars, idVars, polyVars>> /\ \E o \in LogFuncOutcomes : LoggerLogEnds(o)

SpecLogger == InitLogger /\ [][NextLogger]_vars

\* the calls of callee c among the events ev, in order
CallsOf(ev, c) == SelectSeq(ev, LAMBDA x : x.callee = c)

\* func was called and threw during the finished invocation d
LoggerFuncThrew(d) ==
    \E i \in 1..Len(d.events) :
        d.events[i].callee = "func" /\ d.events[i].out.kind = "throw"

\* logFunc threw during the finished invocation d
LoggerLogFuncThrew(d) ==
    \E i \in 1..Len(d.events) :
        d.events[i].callee = "logFunc" /\ d.events[i].out.kind = "throw"

\* JSON.stringify accepts every argument of the list args
Serializable(args) ==
    \A i \in 1..Len(args) : JsonStringify(args[i]).kind = "return"

\* what C5 promises of the finished invocation d: logFunc called twice, with
\* the "starts" and the "ends" line of one and the same name and arguments
\* text, func called once with the args in between, and func's value returned
LoggerLoggedAround(d) ==
    /\ Len(d.events) = 3
    /\ d.events[1].callee = "logFunc"
    /\ d.events[2].callee = "func"
    /\ d.events[3].callee = "logFunc"
    /\ \E text \in {ArgsToString(d.args).val} :
          /\ d.events[1].arg = funcName \o "(" \o text \o ") starts"
          /\ d.events[3].arg = funcName \o "(" \o text \o ") ends"
    /\ d.events[2].arg = d.args
    /\ d.out = d.events[2].out
    /\ d.out.kind = "return"

\* the lines logged for some concrete calls of a wrapped `cos`
LoggerExamples(d) ==
    /\ (funcName = "cos" /\ d.args = <<StrArg("a"), NumArg(0 - 20)>>) =>
           /\ d.events[1].arg = "cos(\"a\",-20) starts"
           /\ d.events[3].arg = "cos(\"a\",-20) ends"
    /\ (funcName = "cos" /\ d.args = <<NumArg(0 - 20)>>) =>
           d.events[1].arg = "cos(-20) starts"
    /\ (funcName = "cos" /\ d.args = <<>>) =>
           d.events[3].arg = "cos() ends"
    /\ (funcName = "" /\ d.args = <<UndefArg, StrArg("a")>>) =>
           d.events[1].arg = "(,\"a\") starts"

C6_LoggerSkipsEndsOnThrow ==
    \A n \in 1..Len(h_logDone) :
        LET d == h_logDone[n]
        IN LoggerFuncThrew(d) =>
              /\ Len(d.events) = 2
              /\ d.events[1].callee = "logFunc"
              /\ d.events[1].arg =
                     LogLine(funcName, ArgsToString(d.args).val, "starts")
              /\ d.events[2].callee = "func"
              /\ d.events[2].arg = d.args
              /\ d.out = d.events[2].out
              /\ Len(CallsOf(d.events, "logFunc")) = 1
              /\ lpc = "idle"

\* func threw e1 when called with (-20): one line was logged
C6_Witness ==
    \E n \in 1..Len(h_logDone) :
        /\ h_logDone[n].args = <<NumArg(0 - 20)>>
        /\ LoggerFuncThrew(h_logDone[n])
        /\ h_logDone[n].out = Throw("e1")
        /\ Len(h_logDone[n].events) = 2

----------------------------------------------------------------------------
(* getIdGeneratorFunction                                                  *)

\* the number of generators constructed
MaxGens == 2
\* the number of calls made to the generators, all together
MaxIdCalls == 6

\* the values of startFrom tried
StartValues == {4, 10, 0 - 3}

GenIds == 1..Len(idValue)

\* getIdGeneratorFunction(startFrom): `let value = startFrom;`
GetIdGeneratorFunction(startFrom) ==
    /\ Len(idValue) < MaxGens
    /\ idValue' = Append(idValue, startFrom)
    /\ h_idStart' = Append(h_idStart, startFrom)
    /\ UNCHANGED h_idTrace

\* generators that share one counter: every call advances all of them
IdValuesAfter_Shared(values, g) == [i \in DOMAIN values |-> values[i] + 1]

\* `value += 1;` in the closure of generator g
IdValuesAfter(values, g) == [values EXCEPT ![g] = @ + 1]

\* `const result = value;`
IdResult(values, g) == values[g]

\* one call of generator g
IdCall(g) ==
    /\ Len(h_idTrace) < MaxIdCalls
    /\ h_idTrace' = Append(h_idTrace, [gen |-> g, result |-> IdResult(idValue, g)])
    /\ idValue' = IdValuesAfter(idValue, g)
    /\ UNCHANGED h_idStart

InitId ==
    /\ MemoUnused
    /\ RetryUnused
    /\ LoggerUnused
    /\ PolyUnused
    /\ idValue = <<>>
    /\ h_idStart = <<>>
    /\ h_idTrace = <<>>

NextId ==
    \/ UNCHANGED <<memoVars, retryVars, loggerVars, polyVars>>
          /\ \E s \in StartValues : GetIdGeneratorFunction(s)
    \/ UNCHANGED <<memoVars, retryVars, loggerVars, polyVars>>
          /\ \E g \in GenIds : IdCall(g)

SpecId == InitId /\ [][NextId]_vars

\* the results of generator g's calls, in order
IdResultsOf(g) ==
    LET mine == SelectSeq(h_idTrace, LAMBDA c : c.gen = g)
    IN [k \in 1..Len(mine) |-> mine[k].result]

(* C7: under any interleaving of calls to independently constructed id     *)
(* generators, the k-th call of a generator constructed with startFrom = s *)
(* returns s + k - 1, and a call to one generator leaves the counter of    *)
(* every other generator as it was (the generators from 4 and 10, called   *)
(* in the order g4, g10, g4, g4, g4, g10, return 4, 10, 5, 6, 7, 11).      *)
C7_IdGeneratorsIndependent ==
    /\ \A g \in GenIds :
          /\ \A k \in 1..Len(IdResultsOf(g)) :
                IdResultsOf(g)[k] = h_idStart[g] + k - 1
          \* the counter moved by the calls of g and by nothing else
          /\ idValue[g] = h_idStart[g] + Len(IdResultsOf(g))
    /\ (/\ h_idStart = <<4, 10>>
        /\ [i \in 1..Len(h_idTrace) |-> h_idTrace[i].gen] = <<1, 2, 1, 1, 1, 2>>)
          => [i \in 1..Len(h_idTrace) |-> h_idTrace[i].result]
                 = <<4, 10, 5, 6, 7, 11>>

\* the interleaving of the example has run
C7_Witness ==
    /\ h_idStart = <<4, 10>>
    /\ [i \in 1..Len(h_idTrace) |-> h_idTrace[i].gen] = <<1, 2, 1, 1, 1, 2>>
    /\ idValue = <<8, 12>>

----------------------------------------------------------------------------
(* getPolynom                                                              *)

\* the largest number of coefficients handed to getPolynom
MaxCoeffs == 3
\* the arguments of pol are the integers of magnitude up to this
MaxX == 3

\* the integer coefficients tried
CoeffValues == {0 - 3, 0 - 1, 0, 1, 2, 3, 5, 8}
XValues == (0 - MaxX)..MaxX

CoeffLists == SeqsUpTo(CoeffValues, MaxCoeffs)

RECURSIVE Pow(_, _)
\* `x ** power` for an integer x and an integer power >= 0 (0 ** 0 is 1)
Pow(x, power) == IF power = 0 THEN 1 ELSE x * Pow(x, power - 1)

\* an exponent counted with 1-based positions
PolPower_OffByOne(len, index) == len - index

\* `const power = coefficients.length - index - 1;` (index counts from 0)
PolPower(len, index) == len - index - 1

RECURSIVE PolReduce(_, _, _, _)
\* `coefficients.reduce((sum, coeff, index) => sum + coeff * x ** power, 0)`
\* from the element at 0-based position index on, with accumulator sum
PolReduce(coeffs, x, index, sum) ==
    IF index >= Len(coeffs)
    THEN sum
    ELSE PolReduce(coeffs, x, index + 1,
             sum + coeffs[index + 1] * Pow(x, PolPower(Len(coeffs), index)))

\* pol(x)
Pol(coeffs, x) == PolReduce(coeffs, x, 0, 0)

\* getPolynom(...coefficients): null for no coefficients, else the closure pol
GetPolynom ==
    /\ polynom = "none"
    /\ polynom' = IF Len(coefficients) = 0 THEN "null" ELSE "function"
    /\ UNCHANGED <<coefficients, h_polCall>>

\* pol(x), on the function getPolynom returned
PolCall(x) ==
    /\ polynom = "function"
    /\ h_polCall' = <<[x |-> x, y |-> Pol(coefficients, x)]>>
    /\ UNCHANGED <<coefficients, polynom>>

\* the coefficients getPolynom is about to be called with
InitPoly ==
    /\ MemoUnused
    /\ RetryUnused
    /\ LoggerUnused
    /\ IdUnused
    /\ coefficients \in CoeffLists
    /\ polynom = "none"
    /\ h_polCall = <<>>

NextPoly ==
    \/ UNCHANGED <<memoVars, retryVars, loggerVars, idVars>> /\ GetPolynom
    \/ UNCHANGED <<memoVars, retryVars, loggerVars, idVars>>
          /\ \E x \in XValues : PolCall(x)

SpecPoly == InitPoly /\ [][NextPoly]_vars

\* the polynomial written out: the coefficient of degree d is the one at
\* position n - d of the list, and the terms are added from degree 0 up
RECURSIVE PolynomialSum(_, _, _)
PolynomialSum(coeffs, x, d) ==
    IF d >= Len(coeffs)
    THEN 0
    ELSE coeffs[Len(coeffs) - d] * (IF d = 0 THEN 1 ELSE x ^ d)
            + PolynomialSum(coeffs, x, d + 1)

(* C8: getPolynom called with no coefficient returns null, not a function; *)
(* called with n >= 1 integer coefficients c0..c(n-1), highest degree      *)
(* first, it returns a function whose value at every integer x of the      *)
(* bounded set is c0*x^(n-1) + c1*x^(n-2) + ... + c(n-1): the left fold    *)
(* from 0 agrees with this sum, getPolynom(2,3,5)(x) is 2*x^2 + 3*x + 5    *)
(* and getPolynom(8)(x) is 8.                                              *)
C8_PolynomValue ==
    /\ polynom # "none" => (polynom = "null" <=> Len(coefficients) = 0)
    /\ polynom = "null" => \A x \in XValues : ~ENABLED PolCall(x)
    /\ h_polCall # <<>> => polynom = "function"
    /\ \A n \in 1..Len(h_polCall) :
          LET x == h_polCall[n].x
              y == h_polCall[n].y
          IN /\ y = PolynomialSum(coefficients, x, 0)
             /\ coefficients = <<2, 3, 5>> => y = 2 * x * x + 3 * x + 5
             /\ coefficients = <<1, 0 - 3>> => y = x - 3
             /\ Len(coefficients) = 1 => y = coefficients[1]
             /\ coefficients = <<8>> => y = 8

\* getPolynom(2,3,5) was called at -3 (and gave 14)
C8_Witness ==
    /\ polynom = "function"
    /\ coefficients = <<2, 3, 5>>
    /\ h_polCall = <<[x |-> 0 - 3, y |-> 14]>>

====
